---- MODULE Spec2Model ----
(***************************************************************************)
(* The RSS ingestion job: main() iterates the configured feeds, and        *)
(* process_feed() fetches a feed, computes the new-item delta against      *)
(* processed_ids.json, drives every new item through upload / fetch /      *)
(* clean / corpus import (submit + poll) / embed / upsert, and saves the   *)
(* processed ids once at the end of the pass.  The remote collaborators    *)
(* (feed server, object store, import service, embedding and vector        *)
(* services) are the environment: every call may succeed or fail.          *)
(***************************************************************************)
EXTENDS Integers, Sequences, FiniteSets, TLC

VARIABLES
    \* ---- durable state and environment
    feedEntries,        \* feed name -> the entries the feed serves
    stored,             \* folder -> processed_ids.json ([exists, ids])
    now,                \* last value read from the wall clock (seconds)
    hangsLeft,          \* import operations the service may still run slowly (or for ever)
    published,          \* entries the feeds have published since the first run
    \* ---- main()
    run,                \* number of the current invocation of the job
    pc,                 \* position of the single thread of control
    fi,                 \* index into RSS_FEEDS of the feed being processed
    \* ---- process_feed() locals
    items,              \* parsed items
    processed_ids,      \* processed_ids["ids"] as loaded (and later extended)
    existing_ids,       \* set(processed_ids["ids"]) taken at load time
    new_items,          \* the delta
    k,                  \* index into new_items of the current item
    new_processed_ids,
    processed_count,
    error_count,
    \* ---- per item
    item_id,
    attempt,            \* attempt number of the retry wrapper around ingest_to_rag
    poll_attempt,       \* poll_attempt of ingest_to_rag
    opHung,             \* the operation submitted last is slow: it may never reach a terminal state
    \* ---- history (not program state)
    outcomes,           \* per handled item of this pass: "done", "skipped" or "raised"
    passIdents,         \* identities of the items marked processed in this pass
    savedIdents,        \* folder -> identities whose ids a completed save has stored
    fullyDone,          \* <<folder, ItemId>> of items whose import, embed and upsert all succeeded
    curSteps,           \* downstream steps the current item has completed
    opErrSeen,          \* a status check of the current item reported done-with-error
    timedOut,           \* a poll loop of the current item ran out of attempts
    attempted,          \* feeds whose pass was started in this run
    feedFailed,         \* feeds whose pass raised in this run
    initFailed,         \* component initialisation raised in this run
    excSource,          \* the call that raised the exception now propagating
    itemErrors,         \* item-level errors of this run so far (capped at 1: some / none)
    checks,             \* status checks issued since the import was last submitted
    okAt,               \* number of the status check that reported terminal success (0: none)
    submitAnswer,       \* what the import endpoint answered to the last submission
    skipCause,          \* why the item handled last was abandoned ("none": it was not)
    tried,              \* remote steps requested for the item handled last
    textLen,            \* stripped length of the text extracted for the item handled last (-1: none)
    srcFailed,          \* this pass's feed could not be retrieved or could not be parsed
    normalized,         \* <<folder, identity, ItemId>> of every id derivation of this run
    lastCall,           \* the retry-wrapped call made last: site, attempts, waits
    stepLog,            \* steps of the item handled last, in the order they ran: <<step, result>>
    text_path,          \* where the extracted text of the current item was stored
    gcs_uri,            \* the source reference of the import submitted last for the current item
    inFlight,           \* operations of the import step in progress that are still running at the service
                        \* (capped at 2; one whose status check failed is not followed further)
    pauseDue,           \* an import has succeeded and the pause that follows it has not elapsed yet
    submits,            \* imports submitted by the import step in progress
    interrupted,        \* the pass that was cut short last: its folder, run, loaded ids, completed items
    other,              \* a second run of the job on the first feed: its position, the ids it loaded, the ids it added
    mineSaved           \* the new ids this run saved in the pass the second run overlapped

envVars  == <<feedEntries, stored, now, hangsLeft, published>>
feedVars == <<items, processed_ids, existing_ids, new_items, k,
              new_processed_ids, processed_count, error_count>>
itemVars == <<item_id, attempt, poll_attempt, opHung>>
histVars == <<outcomes, passIdents, savedIdents, fullyDone, curSteps, opErrSeen,
              timedOut, attempted, feedFailed, initFailed, excSource, itemErrors>>
obsVars  == <<checks, okAt, submitAnswer, skipCause, tried, textLen, srcFailed, normalized,
              lastCall>>
vars == <<feedEntries, stored, now, hangsLeft, published, run, pc, fi,
          items, processed_ids, existing_ids, new_items, k,
          new_processed_ids, processed_count, error_count,
          item_id, attempt, poll_attempt, opHung,
          outcomes, passIdents, savedIdents, fullyDone, curSteps, opErrSeen,
          timedOut, attempted, feedFailed, initFailed, excSource, itemErrors,
          checks, okAt, submitAnswer, skipCause, tried, textLen, srcFailed, normalized,
          lastCall, stepLog, text_path, gcs_uri, inFlight, pauseDue, submits,
          interrupted, other, mineSaved>>

(***************************************************************************)
(* Bounds of the model.                                                    *)
(***************************************************************************)
MaxRuns == 2          \* invocations of the job
MaxPublish == 1       \* entries the feeds publish between the runs, in all
MaxClock == 1         \* the wall clock reads 0..MaxClock
MaxPending == 2       \* "still running" answers of an operation that does terminate
MaxHangs == 1         \* operations that never terminate, per behaviour

(***************************************************************************)
(* Program constants.                                                      *)
(***************************************************************************)
IdMaxLen == 200            \* [:200]
StoreMaxAttempts == 3      \* stop_after_attempt(3) of GCSManager
FetchMaxAttempts == 3      \* stop_after_attempt(3) of RSSFetcher
VectorMaxAttempts == 3     \* stop_after_attempt(3) of VectorSearchIngester
RagMaxAttempts == 5        \* stop_after_attempt(5) of ingest_to_rag
max_poll_attempts == 120
WaitMultiplierSimple == 1  \* wait_exponential(multiplier=1, min=2, max=10)
WaitMinSimple == 2
WaitMaxSimple == 10
RagWaitMultiplier == 2     \* wait_exponential(multiplier=2, min=5, max=60)
RagWaitMin == 5
RagWaitMax == 60
MIN_TEXT_LENGTH == 2       \* configured minimum; the value lives in mcp.config

\* RSS_FEEDS of mcp.config: feed name -> folder, in iteration order.
RSS_FEEDS == <<"f1", "f2">>
Feeds == {RSS_FEEDS[i] : i \in 1..Len(RSS_FEEDS)}
Folder(f) == IF f = "f1" THEN "d1" ELSE "d2"
Folders == {Folder(f) : f \in Feeds}

Min(a, b) == IF a < b THEN a ELSE b
Range(s) == {s[i] : i \in 1..Len(s)}

(***************************************************************************)
(* Strings are sequences of characters.                                    *)
(***************************************************************************)
\* characters the pattern [^\w\-_\.] leaves alone
SafeChars == {"a", "b", "c", "_", "-", "."}
Empty == <<>>

\* str.strip(): leading and trailing white space removed
RECURSIVE LStrip(_)
LStrip(s) == IF s # <<>> /\ Head(s) = " " THEN LStrip(Tail(s)) ELSE s
RECURSIVE RStrip(_)
RStrip(s) == IF s # <<>> /\ s[Len(s)] = " " THEN RStrip(SubSeq(s, 1, Len(s) - 1)) ELSE s
Strip(s) == RStrip(LStrip(s))

\* one entry of the parsed feed -> item dictionary (guid: the entry's id, the
\* link when the entry has no id)
ParseEntry(e) ==
    [guid |-> IF e.hasId THEN Strip(e.id) ELSE Strip(e.link),
     link |-> Strip(e.link)]
ParseRss(entries) == [i \in 1..Len(entries) |-> ParseEntry(entries[i])]

\* item.get("guid") or item.get("link", "")
Identity(item) == IF item.guid # Empty THEN item.guid ELSE item.link

\* re.sub(r'[^\w\-_\.]', '_', raw_id)[:200]
Sanitize(raw) ==
    LET t == [i \in 1..Len(raw) |-> IF raw[i] \in SafeChars THEN raw[i] ELSE "_"]
    IN  SubSeq(t, 1, Min(Len(t), IdMaxLen))

\* f"item_{int(datetime.utcnow().timestamp())}"
FallbackId(t) == <<"item_", ToString(t)>>

\* whether deriving the id of raw_id reads the clock
NeedsClock(raw) == raw = Empty \/ Sanitize(raw) = Empty \/ Sanitize(raw) = <<"_">>

MakeItemId(raw, t) == IF NeedsClock(raw) THEN FallbackId(t) ELSE Sanitize(raw)

\* RSSFetcher.get_new_items: the loop over items, appending the new ones
RECURSIVE GetNewItemsFrom(_, _, _, _)
GetNewItemsFrom(its, processed, i, acc) ==
    IF i > Len(its) THEN acc
    ELSE LET ident == Identity(its[i])
         IN  GetNewItemsFrom(its, processed, i + 1,
                IF ident # Empty /\ ident \notin processed
                THEN Append(acc, its[i]) ELSE acc)
\* get_new_items without its test for an empty identity ("if item_id and ...")
GetNewItemsKeepingUnidentified(its, processed) ==
    SelectSeq(its, LAMBDA it : Identity(it) \notin processed)

GetNewItems(its, processed) == GetNewItemsFrom(its, processed, 1, <<>>)

(***************************************************************************)
(* The retry wrapper (tenacity's @retry) around a remote call.             *)
(***************************************************************************)
\* what one attempt of a remote call does: it returns, raises a transport
\* error (requests.RequestException, ConnectionError) or raises anything else
CallResults == {"ok", "transport", "other"}

\* retry_if_exception_type((Exception,)): every exception is retried
RetryAny(r) == r # "ok"
\* retry_if_exception_type((requests.RequestException, ConnectionError))
RetryTransport(r) == r = "transport"

\* the wrapper's loop from attempt n on: script[n] is what attempt n does.
\* The call returns when an attempt returns; an exception is retried while it
\* is of a retried type and fewer than max attempts were made.
RECURSIVE RetryFrom(_, _, _, _)
RetryFrom(script, n, max, retried) ==
    IF script[n] = "ok" THEN [ok |-> TRUE, attempts |-> n]
    ELSE IF retried = "any" /\ RetryAny(script[n]) /\ n < max
         THEN RetryFrom(script, n + 1, max, retried)
    ELSE IF retried = "transport" /\ RetryTransport(script[n]) /\ n < max
         THEN RetryFrom(script, n + 1, max, retried)
    ELSE [ok |-> FALSE, attempts |-> n]
CallWithRetry(script, max, retried) == RetryFrom(script, 1, max, retried)

\* the scripts the environment may play against a call retried up to max times
Scripts(max) == [1..max -> CallResults]

\* the call sites of the retry wrapper
StoreSites == {"read_json", "write_json", "upload_file"}
FetchSites == {"fetch_rss", "fetch_html"}
VectorSites == {"embed_text", "upsert_vector"}
RagSites == {"ingest_to_rag"}
Sites == StoreSites \cup FetchSites \cup VectorSites \cup RagSites

\* stop_after_attempt(n) of each site
MaxAttempts(site) ==
    CASE site \in StoreSites -> StoreMaxAttempts
      [] site \in FetchSites -> FetchMaxAttempts
      [] site \in VectorSites -> VectorMaxAttempts
      [] OTHER -> RagMaxAttempts

\* wait_exponential(multiplier, min, max) of each site
WaitMultiplier(site) == IF site \in RagSites THEN RagWaitMultiplier ELSE WaitMultiplierSimple
WaitMin(site) == IF site \in RagSites THEN RagWaitMin ELSE WaitMinSimple
WaitMax(site) == IF site \in RagSites THEN RagWaitMax ELSE WaitMaxSimple

Max(a, b) == IF a > b THEN a ELSE b

\* wait_exponential without its lower clamp
WaitExponentialNoFloor(multiplier, min, max, n) ==
    Min(multiplier * 2 ^ (n - 1), max)

\* tenacity's wait_exponential: the wait after the n-th failed attempt is
\* multiplier * 2^(n-1), raised to min and cut at max
WaitExponential(multiplier, min, max, n) ==
    Max(Max(0, min), Min(multiplier * 2 ^ (n - 1), max))

\* the waits a call of the site has slept through when it makes attempt n
Waits(site, n) ==
    [i \in 1..(n - 1) |->
        WaitExponential(WaitMultiplier(site), WaitMin(site), WaitMax(site), i)]

Call(site, n) == [site |-> site, attempts |-> n, waits |-> Waits(site, n)]
NoCall == [site |-> "none", attempts |-> 0, waits |-> <<>>]

(***************************************************************************)
(* The environment's inputs.                                               *)
(***************************************************************************)
Entry(hasId, id, link) == [hasId |-> hasId, id |-> id, link |-> link]
CleanA   == Entry(TRUE, <<"a">>, <<"/", "a">>)        \* guid "a": already path-safe
CleanB   == Entry(TRUE, <<"b">>, <<"/", "b">>)
CleanC   == Entry(TRUE, <<"c">>, <<"/", "c">>)
UrlGuid  == Entry(TRUE, <<"a", "/">>, <<"/", "a">>)   \* guid "a/": a URL-like guid
LinkOnly == Entry(FALSE, Empty, <<"/", "b">>)         \* no id: the guid is the link
NoLink   == Entry(TRUE, <<"b">>, <<" ">>)             \* a guid and a blank link
NoIdent  == Entry(FALSE, Empty, Empty)                \* neither id nor link
Slash    == Entry(TRUE, <<"/">>, <<"/", "c">>)        \* guid "/": sanitizes to "_"
Under    == Entry(TRUE, <<"_">>, <<"/", "c">>)        \* guid "_": is "_" as it stands

\* what a feed serves when the first run starts
InitContents ==
    { <<NoIdent, CleanA, CleanB>>, <<UrlGuid, LinkOnly>>, <<CleanA, NoLink>>,
      <<Slash, Under>>, <<Slash, Slash>> }
\* entries a feed publishes between two runs
PublishPool == {CleanC, UrlGuid}

\* lengths of the stripped text clean_html may return
TextLengths == {0, MIN_TEXT_LENGTH - 1, MIN_TEXT_LENGTH}

NoFile == [exists |-> FALSE, ids |-> <<>>]
JsonFile(ids) == [exists |-> TRUE, ids |-> ids]

\* the log of an item's steps with the result of step recorded: a step that is
\* tried again keeps its one entry
Logged(log, step, res) ==
    IF log # <<>> /\ log[Len(log)][1] = step
    THEN [log EXCEPT ![Len(log)] = <<step, res>>]
    ELSE Append(log, <<step, res>>)

CurFeed == RSS_FEEDS[fi]
CurFolder == Folder(CurFeed)
CurItem == new_items[k]

\* object names inside the bucket: <<directory, kind, item id>>
NoPath == <<>>
\* main.py 159: f"{folder}/clean/{item_id}.txt"
TextPath(folder, id) == <<folder, "clean", id>>
\* rag_ingest.py 83-89: f"gs://{bucket}/{feed}/clean/{item_id}.txt", feed and
\* item_id being metadata["feed"] (the feed's name) and metadata["item_id"]
GcsUri(feed, id) == <<feed, "clean", id>>

\* the second run has not started its pass
Idle == [pc |-> "idle", run |-> 0, ids |-> <<>>, new |-> <<>>]

\* no pass was cut short
NoPass == [folder |-> "none", run |-> 0, loaded |-> <<>>, done |-> {}]

Running == pc \notin {"exit0", "exit1", "stopped"}
InPass == pc \in {"item_loop", "upload_xml", "fetch_html", "upload_html", "clean_html",
                   "upload_text", "rag_submit", "rag_poll", "pause", "embed_text",
                   "upsert_vector", "mark", "item_except", "save", "write_json"}

(***************************************************************************)
(* Init: the state when the job is first invoked.                          *)
(***************************************************************************)
FreshLocals ==
    /\ items = <<>> /\ processed_ids = <<>> /\ existing_ids = {}
    /\ new_items = <<>> /\ k = 0 /\ new_processed_ids = <<>>
    /\ processed_count = 0 /\ error_count = 0
    /\ item_id = <<>> /\ attempt = 1 /\ poll_attempt = 0 /\ opHung = FALSE
    /\ outcomes = <<>> /\ passIdents = {} /\ curSteps = {}
    /\ opErrSeen = FALSE /\ timedOut = FALSE /\ excSource = "none"
    /\ checks = 0 /\ okAt = 0 /\ submitAnswer = "none"
    /\ skipCause = "none" /\ tried = {} /\ textLen = -1 /\ srcFailed = FALSE

\* everything but the feeds' content and the import service's hang budget
InitJob ==
    /\ stored = [d \in Folders |-> NoFile]
    /\ now = 0
    /\ published = 0
    /\ run = 1 /\ pc = "main_init" /\ fi = 0
    /\ FreshLocals
    /\ savedIdents = [d \in Folders |-> {}]
    /\ fullyDone = {}
    /\ attempted = {} /\ feedFailed = {} /\ initFailed = FALSE /\ itemErrors = 0
    /\ normalized = {}
    /\ lastCall = NoCall
    /\ stepLog = <<>>
    /\ text_path = NoPath /\ gcs_uri = NoPath
    /\ inFlight = 0
    /\ pauseDue = FALSE
    /\ submits = 0
    /\ interrupted = NoPass
    /\ other = Idle /\ mineSaved = <<>>

\* the first feed serves one of the initial contents, the second one is still
\* empty; every import operation terminates
Init ==
    /\ feedEntries \in {[f \in Feeds |-> IF f = RSS_FEEDS[1] THEN c ELSE <<>>] :
                           c \in InitContents}
    /\ hangsLeft = 0
    /\ InitJob

\* one article in the first feed; the import service may leave operations
\* running for ever
InitPoll ==
    /\ feedEntries = [f \in Feeds |-> IF f = RSS_FEEDS[1] THEN <<CleanA>> ELSE <<>>]
    /\ hangsLeft = MaxHangs
    /\ InitJob

\* the locals of process_feed as they are when a pass starts or has returned
ResetLocals ==
    /\ items' = <<>> /\ processed_ids' = <<>> /\ existing_ids' = {}
    /\ new_items' = <<>> /\ k' = 0 /\ new_processed_ids' = <<>>
    /\ processed_count' = 0 /\ error_count' = 0
    /\ item_id' = <<>> /\ attempt' = 1 /\ poll_attempt' = 0 /\ opHung' = FALSE
    /\ outcomes' = <<>> /\ passIdents' = {} /\ curSteps' = {}
    /\ opErrSeen' = FALSE /\ timedOut' = FALSE
    /\ checks' = 0 /\ okAt' = 0 /\ submitAnswer' = "none"
    /\ skipCause' = "none" /\ tried' = {} /\ textLen' = -1 /\ srcFailed' = FALSE

(***************************************************************************)
(* Exceptions.                                                             *)
(***************************************************************************)
\* an exception leaves process_feed's try body: control is at line 196
FeedRaise(src) ==
    /\ pc' = "feed_except"
    /\ excSource' = src
    /\ feedFailed' = feedFailed \cup {CurFeed}

\* an exception leaves the try body of the current item: control is at line 183
ItemRaise(src) ==
    /\ pc' = "item_except"
    /\ excSource' = src
    /\ outcomes' = Append(outcomes, "raised")

\* "continue" at lines 132 and 156: the item is abandoned, the loop goes on
ItemSkip ==
    /\ pc' = "item_loop"
    /\ k' = k + 1
    /\ outcomes' = Append(outcomes, "skipped")

\* process_feed returns normally to main's loop
FeedReturn ==
    /\ pc' = "feed_loop"
    /\ fi' = fi + 1
    /\ ResetLocals
    /\ excSource' = "none"

(***************************************************************************)
(* main()                                                                  *)
(***************************************************************************)
\* lines 206-217: the components are constructed; a constructor may raise
InitComponents ==
    /\ pc = "main_init"
    /\ \E ok \in BOOLEAN :
          IF ok
          THEN /\ pc' = "feed_loop" /\ fi' = 1
               /\ UNCHANGED <<initFailed, excSource>>
          ELSE /\ pc' = "main_except" /\ UNCHANGED fi
               /\ initFailed' = TRUE /\ excSource' = "init"
    /\ UNCHANGED <<envVars, run, feedVars, itemVars, outcomes, passIdents,
                   savedIdents, fullyDone, curSteps, opErrSeen, timedOut,
                   attempted, feedFailed, itemErrors, obsVars>>
    /\ UNCHANGED <<stepLog, text_path, gcs_uri, inFlight, pauseDue, submits, interrupted, other, mineSaved>>

\* lines 220-225: the next feed is handed to process_feed (lines 77-85), or
\* the loop is over and the job exits with status 0 (the process ends)
FeedLoop ==
    /\ pc = "feed_loop"
    /\ IF fi <= Len(RSS_FEEDS)
       THEN /\ pc' = "fetch_rss"
            /\ attempted' = attempted \cup {CurFeed}
            /\ UNCHANGED <<normalized, lastCall>>
       ELSE /\ pc' = "exit0"
            /\ normalized' = {} /\ lastCall' = NoCall
            /\ UNCHANGED attempted
    /\ UNCHANGED <<envVars, run, fi, feedVars, itemVars,
                   outcomes, passIdents, savedIdents, fullyDone, curSteps,
                   opErrSeen, timedOut, feedFailed, initFailed, excSource,
                   itemErrors, checks, okAt, submitAnswer, skipCause, tried, textLen,
                   srcFailed>>
    /\ UNCHANGED <<stepLog, text_path, gcs_uri, inFlight, pauseDue, submits, interrupted, other, mineSaved>>

\* lines 196-198: process_feed logs the exception and raises it again
ProcessFeedExcept ==
    /\ pc = "feed_except"
    /\ pc' = "main_except"
    /\ UNCHANGED <<envVars, run, fi, feedVars, itemVars, histVars, obsVars>>
    /\ UNCHANGED <<stepLog, text_path, gcs_uri, inFlight, pauseDue, submits, interrupted, other, mineSaved>>

\* main's handler exiting with status 0 ("sys.exit(0)" in the except clause)
MainExceptExitsZero ==
    /\ pc = "main_except"
    /\ pc' = "exit0"
    /\ ResetLocals
    /\ normalized' = {} /\ lastCall' = NoCall
    /\ UNCHANGED <<envVars, run, fi, savedIdents, fullyDone, attempted,
                   feedFailed, initFailed, excSource, itemErrors>>
    /\ UNCHANGED <<stepLog, text_path, gcs_uri, inFlight, pauseDue, submits, interrupted, other, mineSaved>>

\* lines 227-229: main logs the exception and exits with status 1 (the
\* process ends, and its locals with it)
MainExcept ==
    /\ pc = "main_except"
    /\ pc' = "exit1"
    /\ ResetLocals
    /\ normalized' = {} /\ lastCall' = NoCall
    /\ UNCHANGED <<envVars, run, fi, savedIdents, fullyDone, attempted,
                   feedFailed, initFailed, excSource, itemErrors>>
    /\ UNCHANGED <<stepLog, text_path, gcs_uri, inFlight, pauseDue, submits, interrupted, other, mineSaved>>

(***************************************************************************)
(* process_feed(): fetch, parse, load, delta                               *)
(***************************************************************************)
\* line 85, rss_fetcher.py 24-46: fetch_rss under its retry wrapper (transport
\* errors are retried, anything else propagates at once)
FetchRss ==
    /\ pc = "fetch_rss"
    /\ \E script \in Scripts(FetchMaxAttempts) :
          LET call == CallWithRetry(script, FetchMaxAttempts, "transport")
          IN  /\ lastCall' = Call("fetch_rss", call.attempts)
              /\ srcFailed' = ~call.ok
              /\ IF call.ok
                 THEN /\ pc' = "parse_rss"
                      /\ UNCHANGED <<excSource, feedFailed>>
                 ELSE FeedRaise("fetch_rss")
    /\ UNCHANGED <<envVars, run, fi, feedVars, itemVars,
                   outcomes, passIdents, savedIdents, fullyDone, curSteps,
                   opErrSeen, timedOut, attempted, initFailed, itemErrors,
                   checks, okAt, submitAnswer, skipCause, tried, textLen, normalized>>
    /\ UNCHANGED <<stepLog, text_path, gcs_uri, inFlight, pauseDue, submits, interrupted, other, mineSaved>>

\* rss_fetcher.py 59-62: what feedparser.parse makes of the fetched document:
\* its entries; or, of a document that cannot be parsed, the bozo flag and no
\* entry (parse_rss logs a warning and goes on); or parse_rss raises
ParseAnswers == {"parsed", "bozo", "exception"}

\* line 86, rss_fetcher.py 48-76: parse_rss turns the fetched document into
\* the item list, or raises
ParseRssStep ==
    /\ pc = "parse_rss"
    /\ \E r \in ParseAnswers :
          CASE r = "parsed" ->
                 /\ items' = ParseRss(feedEntries[CurFeed])
                 /\ pc' = "read_json"
                 /\ UNCHANGED <<excSource, feedFailed, srcFailed>>
            [] r = "bozo" ->
                 /\ items' = ParseRss(<<>>)
                 /\ pc' = "read_json"
                 /\ srcFailed' = TRUE
                 /\ UNCHANGED <<excSource, feedFailed>>
            [] OTHER ->
                 /\ FeedRaise("parse_rss")
                 /\ srcFailed' = TRUE
                 /\ UNCHANGED items
    /\ UNCHANGED <<envVars, run, fi, processed_ids, existing_ids, new_items, k,
                   new_processed_ids, processed_count, error_count, itemVars,
                   outcomes, passIdents, savedIdents, fullyDone, curSteps,
                   opErrSeen, timedOut, attempted, initFailed, itemErrors,
                   checks, okAt, submitAnswer, skipCause, tried, textLen, normalized, lastCall>>
    /\ UNCHANGED <<stepLog, text_path, gcs_uri, inFlight, pauseDue, submits, interrupted, other, mineSaved>>

\* lines 89-106, gcs_utils.py 29-60: read_json under its retry wrapper; on
\* success the ids are loaded (an absent file reads as {"ids": []}), the delta
\* is computed, and process_feed returns at once when the delta is empty
LoadProcessed ==
    /\ pc = "read_json"
    /\ \E script \in Scripts(StoreMaxAttempts) :
          LET call == CallWithRetry(script, StoreMaxAttempts, "any")
          IN  /\ lastCall' = Call("read_json", call.attempts)
              /\ IF call.ok
                 THEN LET ids == stored[CurFolder].ids
                          delta == GetNewItems(items, Range(ids))
                      IN  IF delta = <<>>
                          THEN /\ FeedReturn
                               /\ UNCHANGED feedFailed
                          ELSE /\ processed_ids' = ids
                               /\ existing_ids' = Range(ids)
                               /\ new_items' = delta
                               /\ k' = 1
                               /\ new_processed_ids' = <<>>
                               /\ processed_count' = 0 /\ error_count' = 0
                               /\ pc' = "item_loop"
                               /\ UNCHANGED <<fi, items, itemVars, outcomes, passIdents,
                                              curSteps, opErrSeen, timedOut, excSource,
                                              feedFailed, checks, okAt, submitAnswer,
                                              skipCause, tried, textLen, srcFailed>>
                 ELSE /\ FeedRaise("read_json")
                      /\ UNCHANGED <<fi, feedVars, itemVars, outcomes, passIdents,
                                     curSteps, opErrSeen, timedOut, checks, okAt,
                                     submitAnswer, skipCause, tried, textLen, srcFailed>>
    /\ UNCHANGED <<envVars, run, savedIdents, fullyDone, attempted, initFailed,
                   itemErrors, normalized>>
    /\ UNCHANGED <<stepLog, text_path, gcs_uri, inFlight, pauseDue, submits, interrupted, other, mineSaved>>

(***************************************************************************)
(* process_feed(): the per-item loop                                       *)
(***************************************************************************)
\* lines 108-121: the loop takes the next new item and derives its item_id
\* (the clock is read only by the timestamp fallback), or the loop is over
ItemLoop ==
    /\ pc = "item_loop"
    /\ stepLog' = <<>>
    /\ text_path' = NoPath /\ gcs_uri' = NoPath
    /\ inFlight' = 0 /\ submits' = 0
    /\ IF k <= Len(new_items)
       THEN LET raw_id == Identity(CurItem)
            IN  /\ \E t \in {now, Min(now + 1, MaxClock)} :
                      /\ now' = IF NeedsClock(raw_id) THEN t ELSE now
                      /\ item_id' = MakeItemId(raw_id, t)
                      /\ normalized' = normalized \cup
                            {<<CurFolder, raw_id, MakeItemId(raw_id, t)>>}
                /\ pc' = "upload_xml" /\ attempt' = 1
                /\ poll_attempt' = 0 /\ opHung' = FALSE
                /\ curSteps' = {} /\ opErrSeen' = FALSE /\ timedOut' = FALSE
                /\ checks' = 0 /\ okAt' = 0 /\ submitAnswer' = "none"
                /\ skipCause' = "none" /\ tried' = {} /\ textLen' = -1
       ELSE /\ pc' = "save"
            /\ UNCHANGED <<now, itemVars, curSteps, opErrSeen, timedOut, checks, okAt,
                           submitAnswer, skipCause, tried, textLen, normalized>>
    /\ UNCHANGED <<feedEntries, stored, hangsLeft, published, run, fi, feedVars,
                   outcomes, passIdents, savedIdents, fullyDone,
                   attempted, feedFailed, initFailed, excSource, itemErrors,
                   srcFailed, lastCall>>
    /\ UNCHANGED <<pauseDue, interrupted, other, mineSaved>>

\* the item loop without the test of lines 129-132
UploadXmlNoLinkTest ==
    /\ pc = "upload_xml"
    /\ \E script \in Scripts(StoreMaxAttempts) :
          LET call == CallWithRetry(script, StoreMaxAttempts, "any")
          IN  /\ lastCall' = Call("upload_file", call.attempts)
              /\ stepLog' = Logged(stepLog, "upload_xml", IF call.ok THEN "ok" ELSE "failed")
              /\ IF call.ok
                 THEN IF FALSE
                      THEN /\ ItemSkip
                           /\ skipCause' = "no_link"
                           /\ UNCHANGED excSource
                      ELSE /\ pc' = "fetch_html"
                           /\ UNCHANGED <<k, outcomes, excSource, skipCause>>
                 ELSE /\ ItemRaise("upload_xml")
                      /\ UNCHANGED <<k, skipCause>>
    /\ UNCHANGED <<envVars, run, fi, items, processed_ids, existing_ids, new_items,
                   new_processed_ids, processed_count, error_count, itemVars,
                   passIdents, savedIdents, fullyDone, curSteps, opErrSeen,
                   timedOut, attempted, feedFailed, initFailed, itemErrors,
                   checks, okAt, submitAnswer, tried, textLen, srcFailed, normalized>>
    /\ UNCHANGED <<text_path, gcs_uri, inFlight, pauseDue, submits, interrupted, other, mineSaved>>

\* lines 123-132, gcs_utils.py 85-124: the raw XML upload under its retry
\* wrapper; when it succeeds, an item without a link is abandoned
UploadXml ==
    /\ pc = "upload_xml"
    /\ \E script \in Scripts(StoreMaxAttempts) :
          LET call == CallWithRetry(script, StoreMaxAttempts, "any")
          IN  /\ lastCall' = Call("upload_file", call.attempts)
              /\ stepLog' = Logged(stepLog, "upload_xml", IF call.ok THEN "ok" ELSE "failed")
              /\ IF call.ok
                 THEN IF CurItem.link = Empty
                      THEN /\ ItemSkip
                           /\ skipCause' = "no_link"
                           /\ UNCHANGED excSource
                      ELSE /\ pc' = "fetch_html"
                           /\ UNCHANGED <<k, outcomes, excSource, skipCause>>
                 ELSE /\ ItemRaise("upload_xml")
                      /\ UNCHANGED <<k, skipCause>>
    /\ UNCHANGED <<envVars, run, fi, items, processed_ids, existing_ids, new_items,
                   new_processed_ids, processed_count, error_count, itemVars,
                   passIdents, savedIdents, fullyDone, curSteps, opErrSeen,
                   timedOut, attempted, feedFailed, initFailed, itemErrors,
                   checks, okAt, submitAnswer, tried, textLen, srcFailed, normalized>>
    /\ UNCHANGED <<text_path, gcs_uri, inFlight, pauseDue, submits, interrupted, other, mineSaved>>

\* line 135, rss_fetcher.py 99-118: fetch_html under its retry wrapper
FetchHtml ==
    /\ pc = "fetch_html"
    /\ \E script \in Scripts(FetchMaxAttempts) :
          LET call == CallWithRetry(script, FetchMaxAttempts, "transport")
          IN  /\ lastCall' = Call("fetch_html", call.attempts)
              /\ stepLog' = Logged(stepLog, "fetch_html", IF call.ok THEN "ok" ELSE "failed")
              /\ tried' = tried \cup {"fetch_html"}
              /\ IF call.ok
                 THEN /\ pc' = "upload_html"
                      /\ UNCHANGED <<outcomes, excSource>>
                 ELSE ItemRaise("fetch_html")
    /\ UNCHANGED <<envVars, run, fi, feedVars, itemVars,
                   passIdents, savedIdents, fullyDone, curSteps, opErrSeen,
                   timedOut, attempted, feedFailed, initFailed, itemErrors,
                   checks, okAt, submitAnswer, skipCause, textLen, srcFailed, normalized>>
    /\ UNCHANGED <<text_path, gcs_uri, inFlight, pauseDue, submits, interrupted, other, mineSaved>>

\* lines 137-140: the raw HTML upload under its retry wrapper
UploadHtml ==
    /\ pc = "upload_html"
    /\ \E script \in Scripts(StoreMaxAttempts) :
          LET call == CallWithRetry(script, StoreMaxAttempts, "any")
          IN  /\ lastCall' = Call("upload_file", call.attempts)
              /\ stepLog' = Logged(stepLog, "upload_html", IF call.ok THEN "ok" ELSE "failed")
              /\ IF call.ok
                 THEN /\ pc' = "clean_html"
                      /\ UNCHANGED <<outcomes, excSource>>
                 ELSE ItemRaise("upload_html")
    /\ UNCHANGED <<envVars, run, fi, feedVars, itemVars,
                   passIdents, savedIdents, fullyDone, curSteps, opErrSeen,
                   timedOut, attempted, feedFailed, initFailed, itemErrors,
                   checks, okAt, submitAnswer, skipCause, tried, textLen, srcFailed, normalized>>
    /\ UNCHANGED <<text_path, gcs_uri, inFlight, pauseDue, submits, interrupted, other, mineSaved>>

\* the gate of lines 154-156 testing only for an empty text
CleanHtmlNoLengthTest ==
    /\ pc = "clean_html"
    /\ \/ \E len \in TextLengths :
             /\ textLen' = len
             /\ stepLog' = Logged(stepLog, "clean_html", "ok")
             /\ IF len = 0
                THEN /\ ItemSkip
                     /\ skipCause' = "short_text"
                     /\ UNCHANGED excSource
                ELSE /\ pc' = "upload_text"
                     /\ UNCHANGED <<k, outcomes, excSource, skipCause>>
       \/ /\ ItemRaise("clean_html")
          /\ stepLog' = Logged(stepLog, "clean_html", "failed")
          /\ UNCHANGED <<k, skipCause, textLen>>
    /\ UNCHANGED <<envVars, run, fi, items, processed_ids, existing_ids, new_items,
                   new_processed_ids, processed_count, error_count, itemVars,
                   passIdents, savedIdents, fullyDone, curSteps, opErrSeen,
                   timedOut, attempted, feedFailed, initFailed, itemErrors,
                   checks, okAt, submitAnswer, tried, srcFailed,
                   normalized, lastCall>>
    /\ UNCHANGED <<text_path, gcs_uri, inFlight, pauseDue, submits, interrupted, other, mineSaved>>

\* lines 142-156: the text is extracted (the extractor may raise); text whose
\* stripped length is below MIN_TEXT_LENGTH abandons the item
CleanHtml ==
    /\ pc = "clean_html"
    /\ \/ \E len \in TextLengths :
             /\ textLen' = len
             /\ stepLog' = Logged(stepLog, "clean_html", "ok")
             /\ IF len = 0 \/ len < MIN_TEXT_LENGTH
                THEN /\ ItemSkip
                     /\ skipCause' = "short_text"
                     /\ UNCHANGED excSource
                ELSE /\ pc' = "upload_text"
                     /\ UNCHANGED <<k, outcomes, excSource, skipCause>>
       \/ /\ ItemRaise("clean_html")
          /\ stepLog' = Logged(stepLog, "clean_html", "failed")
          /\ UNCHANGED <<k, skipCause, textLen>>
    /\ UNCHANGED <<envVars, run, fi, items, processed_ids, existing_ids, new_items,
                   new_processed_ids, processed_count, error_count, itemVars,
                   passIdents, savedIdents, fullyDone, curSteps, opErrSeen,
                   timedOut, attempted, feedFailed, initFailed, itemErrors,
                   checks, okAt, submitAnswer, tried, srcFailed,
                   normalized, lastCall>>
    /\ UNCHANGED <<text_path, gcs_uri, inFlight, pauseDue, submits, interrupted, other, mineSaved>>

\* lines 158-161: the cleaned text upload under its retry wrapper
UploadText ==
    /\ pc = "upload_text"
    /\ \E script \in Scripts(StoreMaxAttempts) :
          LET call == CallWithRetry(script, StoreMaxAttempts, "any")
          IN  /\ lastCall' = Call("upload_file", call.attempts)
              /\ text_path' = TextPath(CurFolder, item_id)
              /\ stepLog' = Logged(stepLog, "upload_text", IF call.ok THEN "ok" ELSE "failed")
              /\ IF call.ok
                 THEN /\ pc' = "rag_submit"
                      /\ UNCHANGED <<outcomes, excSource>>
                 ELSE ItemRaise("upload_text")
    /\ UNCHANGED <<envVars, run, fi, feedVars, itemVars,
                   passIdents, savedIdents, fullyDone, curSteps, opErrSeen,
                   timedOut, attempted, feedFailed, initFailed, itemErrors,
                   checks, okAt, submitAnswer, skipCause, tried, textLen, srcFailed, normalized>>
    /\ UNCHANGED <<gcs_uri, inFlight, pauseDue, submits, interrupted, other, mineSaved>>

(***************************************************************************)
(* RAGIngester.ingest_to_rag(): submission, poll loop, retry wrapper       *)
(***************************************************************************)
\* ingest_to_rag without its retry decorator
RagRaiseNoRetry(src) ==
    IF FALSE
    THEN /\ pc' = "rag_submit" /\ attempt' = attempt + 1
         /\ poll_attempt' = 0 /\ opHung' = FALSE
         /\ stepLog' = Logged(stepLog, "import", "retrying")
         /\ UNCHANGED <<outcomes, excSource>>
    ELSE /\ ItemRaise(src)
         /\ stepLog' = Logged(stepLog, "import", "failed")
         /\ UNCHANGED <<attempt, poll_attempt, opHung>>

\* a retry wrapper without stop_after_attempt: ingest_to_rag is called again
\* after every exception
RagRaiseNoCeiling(src) ==
    IF TRUE
    THEN /\ pc' = "rag_submit" /\ attempt' = attempt + 1
         /\ poll_attempt' = 0 /\ opHung' = FALSE
         /\ stepLog' = Logged(stepLog, "import", "retrying")
         /\ UNCHANGED <<outcomes, excSource>>
    ELSE /\ ItemRaise(src)
         /\ stepLog' = Logged(stepLog, "import", "failed")
         /\ UNCHANGED <<attempt, poll_attempt, opHung>>

\* rag_ingest.py 66-70 and 219-222: an exception raised inside ingest_to_rag
\* is raised again to the retry wrapper, which calls ingest_to_rag anew while
\* fewer than 5 attempts were made and lets the exception out after the 5th
RagRaise(src) ==
    IF attempt < RagMaxAttempts
    THEN /\ pc' = "rag_submit" /\ attempt' = attempt + 1
         /\ poll_attempt' = 0 /\ opHung' = FALSE
         /\ stepLog' = Logged(stepLog, "import", "retrying")
         /\ UNCHANGED <<outcomes, excSource>>
    ELSE /\ ItemRaise(src)
         /\ stepLog' = Logged(stepLog, "import", "failed")
         /\ UNCHANGED <<attempt, poll_attempt, opHung>>

\* answers of the import endpoint to the POST of lines 117-122: an operation,
\* a 400 "other operations running", another status, a body without an
\* operation name, or no answer at all (the request raised)
SubmitAnswers == {"accepted", "concurrent", "rejected", "no_name", "exception"}

\* rag_ingest.py 82-156: one call of ingest_to_rag up to the start of the poll
\* loop: the import is submitted; an accepted import is a running operation
RagSubmit ==
    /\ pc = "rag_submit"
    /\ lastCall' = Call("ingest_to_rag", attempt)
    /\ gcs_uri' = GcsUri(CurFeed, item_id)
    /\ submits' = submits + 1
    /\ tried' = tried \cup {"import"}
    /\ checks' = 0 /\ okAt' = 0
    /\ \E r \in SubmitAnswers :
          /\ submitAnswer' = r
          /\ IF r = "accepted"
             THEN /\ \E h \in BOOLEAN :
                        /\ h => hangsLeft > 0
                        /\ opHung' = h
                        /\ hangsLeft' = IF h THEN hangsLeft - 1 ELSE hangsLeft
                  /\ pc' = "rag_poll" /\ poll_attempt' = 0
                  /\ stepLog' = Logged(stepLog, "import", "pending")
                  /\ inFlight' = Min(inFlight + 1, 2)
                  /\ UNCHANGED <<attempt, outcomes, excSource>>
             ELSE /\ RagRaise(r)
                  /\ UNCHANGED <<hangsLeft, inFlight>>
    /\ UNCHANGED <<feedEntries, stored, now, published, run, fi, feedVars, item_id,
                   passIdents, savedIdents, fullyDone, curSteps, opErrSeen,
                   timedOut, attempted, feedFailed, initFailed, itemErrors,
                   skipCause, textLen, srcFailed, normalized>>
    /\ UNCHANGED <<text_path, pauseDue, interrupted, other, mineSaved>>

\* what a status check may answer: a slow operation is running for as long
\* as the service likes, for ever or until it succeeds at some check; any
\* other operation is running for at most MaxPending checks
StatusAnswers ==
    IF opHung THEN {"running", "done_ok"}
    ELSE {"done_ok", "done_error", "http_error"}
           \cup (IF poll_attempt < MaxPending THEN {"running"} ELSE {})

\* the poll loop without the "break" after a successful terminal answer
RagPollKeepsPolling ==
    /\ pc = "rag_poll"
    /\ IF poll_attempt < max_poll_attempts
       THEN /\ \E st \in StatusAnswers :
                  CASE st = "running" ->
                         /\ pc' = pc
                         /\ poll_attempt' = poll_attempt + 1
                         /\ UNCHANGED <<okAt, stepLog, inFlight, pauseDue>>
                         /\ UNCHANGED <<attempt, opHung, outcomes, excSource,
                                        curSteps, opErrSeen>>
                    [] st = "done_ok" ->
                         /\ pc' = pc
                         /\ poll_attempt' = poll_attempt + 1
                         /\ okAt' = checks + 1
                         /\ pauseDue' = TRUE
                         /\ inFlight' = inFlight - 1
                         /\ stepLog' = Logged(stepLog, "import", "ok")
                         /\ curSteps' = curSteps \cup {"import"}
                         /\ UNCHANGED <<attempt, opHung, outcomes, excSource,
                                        opErrSeen>>
                    [] st = "done_error" ->
                         /\ opErrSeen' = TRUE
                         /\ inFlight' = inFlight - 1
                         /\ RagRaise("operation_error")
                         /\ UNCHANGED <<curSteps, okAt, pauseDue>>
                    [] OTHER ->
                         /\ RagRaise("poll_http_error")
                         /\ inFlight' = inFlight - 1
                         /\ UNCHANGED <<curSteps, opErrSeen, okAt, pauseDue>>
            /\ checks' = checks + 1
            /\ UNCHANGED timedOut
       ELSE /\ timedOut' = TRUE
            /\ RagRaise("poll_timeout")
            /\ UNCHANGED <<curSteps, opErrSeen, checks, okAt, inFlight, pauseDue>>
    /\ UNCHANGED <<envVars, run, fi, feedVars, item_id,
                   passIdents, savedIdents, fullyDone,
                   attempted, feedFailed, initFailed, itemErrors,
                   submitAnswer, skipCause, tried, textLen, srcFailed, normalized, lastCall>>
    /\ UNCHANGED <<text_path, gcs_uri, submits, interrupted, other, mineSaved>>

\* the poll loop taking every finished operation for a success (no test for "error")
RagPollIgnoresOperationError ==
    /\ pc = "rag_poll"
    /\ IF poll_attempt < max_poll_attempts
       THEN /\ \E st \in StatusAnswers :
                  CASE st = "running" ->
                         /\ pc' = pc
                         /\ poll_attempt' = poll_attempt + 1
                         /\ UNCHANGED <<okAt, stepLog, inFlight, pauseDue>>
                         /\ UNCHANGED <<attempt, opHung, outcomes, excSource,
                                        curSteps, opErrSeen>>
                    [] st = "done_ok" ->
                         /\ pc' = "pause"
                         /\ poll_attempt' = poll_attempt + 1
                         /\ okAt' = checks + 1
                         /\ pauseDue' = TRUE
                         /\ inFlight' = inFlight - 1
                         /\ stepLog' = Logged(stepLog, "import", "ok")
                         /\ curSteps' = curSteps \cup {"import"}
                         /\ UNCHANGED <<attempt, opHung, outcomes, excSource,
                                        opErrSeen>>
                    [] st = "done_error" ->
                         /\ opErrSeen' = TRUE
                         /\ inFlight' = inFlight - 1
                         /\ pc' = "pause"
                         /\ poll_attempt' = poll_attempt + 1
                         /\ stepLog' = Logged(stepLog, "import", "failed")
                         /\ UNCHANGED <<attempt, opHung, outcomes, excSource,
                                        curSteps, okAt, pauseDue>>
                    [] OTHER ->
                         /\ RagRaise("poll_http_error")
                         /\ inFlight' = inFlight - 1
                         /\ UNCHANGED <<curSteps, opErrSeen, okAt, pauseDue>>
            /\ checks' = checks + 1
            /\ UNCHANGED timedOut
       ELSE /\ timedOut' = TRUE
            /\ RagRaise("poll_timeout")
            /\ UNCHANGED <<curSteps, opErrSeen, checks, okAt, inFlight, pauseDue>>
    /\ UNCHANGED <<envVars, run, fi, feedVars, item_id,
                   passIdents, savedIdents, fullyDone,
                   attempted, feedFailed, initFailed, itemErrors,
                   submitAnswer, skipCause, tried, textLen, srcFailed, normalized, lastCall>>
    /\ UNCHANGED <<text_path, gcs_uri, submits, interrupted, other, mineSaved>>

\* the item loop without the sleep of main.py 169: the embedding follows the
\* successful import at once
RagPollThenEmbed ==
    /\ pc = "rag_poll"
    /\ IF poll_attempt < max_poll_attempts
       THEN /\ \E st \in StatusAnswers :
                  CASE st = "running" ->
                         /\ pc' = pc
                         /\ poll_attempt' = poll_attempt + 1
                         /\ UNCHANGED <<okAt, stepLog, inFlight, pauseDue>>
                         /\ UNCHANGED <<attempt, opHung, outcomes, excSource,
                                        curSteps, opErrSeen>>
                    [] st = "done_ok" ->
                         /\ pc' = "embed_text"
                         /\ poll_attempt' = poll_attempt + 1
                         /\ okAt' = checks + 1
                         /\ pauseDue' = TRUE
                         /\ inFlight' = inFlight - 1
                         /\ stepLog' = Logged(stepLog, "import", "ok")
                         /\ curSteps' = curSteps \cup {"import"}
                         /\ UNCHANGED <<attempt, opHung, outcomes, excSource,
                                        opErrSeen>>
                    [] st = "done_error" ->
                         /\ opErrSeen' = TRUE
                         /\ inFlight' = inFlight - 1
                         /\ RagRaise("operation_error")
                         /\ UNCHANGED <<curSteps, okAt, pauseDue>>
                    [] OTHER ->
                         /\ RagRaise("poll_http_error")
                         /\ inFlight' = inFlight - 1
                         /\ UNCHANGED <<curSteps, opErrSeen, okAt, pauseDue>>
            /\ checks' = checks + 1
            /\ UNCHANGED timedOut
       ELSE /\ timedOut' = TRUE
            /\ RagRaise("poll_timeout")
            /\ UNCHANGED <<curSteps, opErrSeen, checks, okAt, inFlight, pauseDue>>
    /\ UNCHANGED <<envVars, run, fi, feedVars, item_id,
                   passIdents, savedIdents, fullyDone,
                   attempted, feedFailed, initFailed, itemErrors,
                   submitAnswer, skipCause, tried, textLen, srcFailed, normalized, lastCall>>
    /\ UNCHANGED <<text_path, gcs_uri, submits, interrupted, other, mineSaved>>

\* rag_ingest.py 158-217: the test of the while loop and one iteration of it
\* (one status check), or the loop's else branch when the attempts are used up
RagPoll ==
    /\ pc = "rag_poll"
    /\ IF poll_attempt < max_poll_attempts
       THEN /\ \E st \in StatusAnswers :
                  CASE st = "running" ->
                         /\ pc' = pc
                         /\ poll_attempt' = poll_attempt + 1
                         /\ UNCHANGED <<okAt, stepLog, inFlight, pauseDue>>
                         /\ UNCHANGED <<attempt, opHung, outcomes, excSource,
                                        curSteps, opErrSeen>>
                    [] st = "done_ok" ->
                         /\ pc' = "pause"
                         /\ poll_attempt' = poll_attempt + 1
                         /\ okAt' = checks + 1
                         /\ pauseDue' = TRUE
                         /\ inFlight' = inFlight - 1
                         /\ stepLog' = Logged(stepLog, "import", "ok")
                         /\ curSteps' = curSteps \cup {"import"}
                         /\ UNCHANGED <<attempt, opHung, outcomes, excSource,
                                        opErrSeen>>
                    [] st = "done_error" ->
                         /\ opErrSeen' = TRUE
                         /\ inFlight' = inFlight - 1
                         /\ RagRaise("operation_error")
                         /\ UNCHANGED <<curSteps, okAt, pauseDue>>
                    [] OTHER ->
                         /\ RagRaise("poll_http_error")
                         /\ inFlight' = inFlight - 1
                         /\ UNCHANGED <<curSteps, opErrSeen, okAt, pauseDue>>
            /\ checks' = checks + 1
            /\ UNCHANGED timedOut
       ELSE /\ timedOut' = TRUE
            /\ RagRaise("poll_timeout")
            /\ UNCHANGED <<curSteps, opErrSeen, checks, okAt, inFlight, pauseDue>>
    /\ UNCHANGED <<envVars, run, fi, feedVars, item_id,
                   passIdents, savedIdents, fullyDone,
                   attempted, feedFailed, initFailed, itemErrors,
                   submitAnswer, skipCause, tried, textLen, srcFailed, normalized, lastCall>>
    /\ UNCHANGED <<text_path, gcs_uri, submits, interrupted, other, mineSaved>>

(***************************************************************************)
(* process_feed(): pause, embedding, upsert, mark, item-level handler      *)
(***************************************************************************)
\* lines 166-169: ingest_to_rag has returned (its frame is gone); time.sleep(2)
Pause ==
    /\ pc = "pause"
    /\ pc' = "embed_text"
    /\ attempt' = 1 /\ poll_attempt' = 0 /\ opHung' = FALSE
    /\ checks' = 0 /\ okAt' = 0 /\ submitAnswer' = "none"
    /\ inFlight' = 0
    /\ pauseDue' = FALSE /\ submits' = 0
    /\ UNCHANGED <<envVars, run, fi, feedVars, item_id, histVars,
                   skipCause, tried, textLen, srcFailed, normalized, lastCall>>
    /\ UNCHANGED <<stepLog, text_path, gcs_uri, interrupted, other, mineSaved>>

\* the item marked as processed right after the embedding, before the upsert
EmbedTextThenMark ==
    /\ pc = "embed_text"
    /\ \E script \in Scripts(VectorMaxAttempts) :
          LET call == CallWithRetry(script, VectorMaxAttempts, "any")
          IN  /\ lastCall' = Call("embed_text", call.attempts)
              /\ stepLog' = Logged(stepLog, "embed", IF call.ok THEN "ok" ELSE "failed")
              /\ tried' = tried \cup {"embed"}
              /\ IF call.ok
                 THEN /\ pc' = "mark"
                      /\ curSteps' = curSteps \cup {"embed"}
                      /\ UNCHANGED <<outcomes, excSource>>
                 ELSE /\ ItemRaise("embed_text")
                      /\ UNCHANGED curSteps
    /\ UNCHANGED <<envVars, run, fi, feedVars, itemVars,
                   passIdents, savedIdents, fullyDone, opErrSeen,
                   timedOut, attempted, feedFailed, initFailed, itemErrors,
                   checks, okAt, submitAnswer, skipCause, textLen, srcFailed, normalized>>
    /\ UNCHANGED <<text_path, gcs_uri, inFlight, pauseDue, submits, interrupted, other, mineSaved>>

\* line 173, vector_search_ingest.py 55-86: embed_text under its retry wrapper
EmbedText ==
    /\ pc = "embed_text"
    /\ \E script \in Scripts(VectorMaxAttempts) :
          LET call == CallWithRetry(script, VectorMaxAttempts, "any")
          IN  /\ lastCall' = Call("embed_text", call.attempts)
              /\ stepLog' = Logged(stepLog, "embed", IF call.ok THEN "ok" ELSE "failed")
              /\ tried' = tried \cup {"embed"}
              /\ IF call.ok
                 THEN /\ pc' = "upsert_vector"
                      /\ curSteps' = curSteps \cup {"embed"}
                      /\ UNCHANGED <<outcomes, excSource>>
                 ELSE /\ ItemRaise("embed_text")
                      /\ UNCHANGED curSteps
    /\ UNCHANGED <<envVars, run, fi, feedVars, itemVars,
                   passIdents, savedIdents, fullyDone, opErrSeen,
                   timedOut, attempted, feedFailed, initFailed, itemErrors,
                   checks, okAt, submitAnswer, skipCause, textLen, srcFailed, normalized>>
    /\ UNCHANGED <<text_path, gcs_uri, inFlight, pauseDue, submits, interrupted, other, mineSaved>>

\* line 175, vector_search_ingest.py 88-122: upsert_vector under its retry
\* wrapper
UpsertVector ==
    /\ pc = "upsert_vector"
    /\ \E script \in Scripts(VectorMaxAttempts) :
          LET call == CallWithRetry(script, VectorMaxAttempts, "any")
          IN  /\ lastCall' = Call("upsert_vector", call.attempts)
              /\ stepLog' = Logged(stepLog, "upsert", IF call.ok THEN "ok" ELSE "failed")
              /\ tried' = tried \cup {"upsert"}
              /\ IF call.ok
                 THEN /\ pc' = "mark"
                      /\ curSteps' = curSteps \cup {"upsert"}
                      /\ outcomes' = Append(outcomes, "done")
                      /\ fullyDone' = IF {"import", "embed"} \subseteq curSteps
                                      THEN fullyDone \cup {<<CurFolder, item_id>>}
                                      ELSE fullyDone
                      /\ UNCHANGED excSource
                 ELSE /\ ItemRaise("upsert_vector")
                      /\ UNCHANGED <<curSteps, fullyDone>>
    /\ UNCHANGED <<envVars, run, fi, feedVars, itemVars,
                   passIdents, savedIdents, opErrSeen,
                   timedOut, attempted, feedFailed, initFailed, itemErrors,
                   checks, okAt, submitAnswer, skipCause, textLen, srcFailed, normalized>>
    /\ UNCHANGED <<text_path, gcs_uri, inFlight, pauseDue, submits, interrupted, other, mineSaved>>

\* the ids saved after every marked item
MarkProcessedAndSave ==
    /\ pc = "mark"
    /\ new_processed_ids' = Append(new_processed_ids, item_id)
    /\ processed_count' = processed_count + 1
    /\ passIdents' = passIdents \cup {Identity(CurItem)}
    /\ k' = k + 1
    /\ stepLog' = Logged(stepLog, "mark", "ok")
    /\ pc' = "item_loop"
    /\ curSteps' = {} /\ opErrSeen' = FALSE /\ timedOut' = FALSE
    /\ stored' = [stored EXCEPT ![CurFolder] =
                    JsonFile(processed_ids \o Append(new_processed_ids, item_id))]
    /\ UNCHANGED <<feedEntries, now, hangsLeft, published, run, fi, items, processed_ids, existing_ids, new_items,
                   error_count, itemVars, outcomes, savedIdents, fullyDone,
                   attempted, feedFailed, initFailed, excSource, itemErrors, obsVars>>
    /\ UNCHANGED <<text_path, gcs_uri, inFlight, pauseDue, submits, interrupted, other, mineSaved>>

\* lines 178-181: the item is marked as processed; the loop goes on
MarkProcessed ==
    /\ pc = "mark"
    /\ new_processed_ids' = Append(new_processed_ids, item_id)
    /\ processed_count' = processed_count + 1
    /\ passIdents' = passIdents \cup {Identity(CurItem)}
    /\ k' = k + 1
    /\ stepLog' = Logged(stepLog, "mark", "ok")
    /\ pc' = "item_loop"
    /\ curSteps' = {} /\ opErrSeen' = FALSE /\ timedOut' = FALSE
    /\ UNCHANGED <<envVars, run, fi, items, processed_ids, existing_ids, new_items,
                   error_count, itemVars, outcomes, savedIdents, fullyDone,
                   attempted, feedFailed, initFailed, excSource, itemErrors, obsVars>>
    /\ UNCHANGED <<text_path, gcs_uri, inFlight, pauseDue, submits, interrupted, other, mineSaved>>

\* an item-level handler that raises the exception again ("raise" for "continue")
ItemExceptReraises ==
    /\ pc = "item_except"
    /\ pc' = "feed_except"
    /\ UNCHANGED <<envVars, run, fi, feedVars, itemVars, histVars, obsVars>>
    /\ UNCHANGED <<stepLog, text_path, gcs_uri, inFlight, pauseDue, submits, interrupted, other, mineSaved>>

\* lines 183-186: the item's exception is caught, counted and logged; the
\* loop goes on with the next item
ItemExcept ==
    /\ pc = "item_except"
    /\ error_count' = error_count + 1
    /\ k' = k + 1
    /\ pc' = "item_loop"
    /\ excSource' = "none"
    /\ itemErrors' = 1
    /\ attempt' = 1 /\ poll_attempt' = 0 /\ opHung' = FALSE
    /\ curSteps' = {} /\ opErrSeen' = FALSE /\ timedOut' = FALSE
    /\ checks' = 0 /\ okAt' = 0 /\ submitAnswer' = "none"
    /\ inFlight' = 0 /\ submits' = 0
    /\ UNCHANGED <<envVars, run, fi, items, processed_ids, existing_ids, new_items,
                   new_processed_ids, processed_count, item_id, outcomes,
                   passIdents, savedIdents, fullyDone,
                   attempted, feedFailed, initFailed,
                   skipCause, tried, textLen, srcFailed, normalized, lastCall>>
    /\ UNCHANGED <<stepLog, text_path, gcs_uri, pauseDue, interrupted, other, mineSaved>>

(***************************************************************************)
(* process_feed(): the end-of-pass save                                    *)
(***************************************************************************)
\* the save handing only the new ids to write_json
SaveProcessedOnlyNew ==
    /\ pc = "save"
    /\ IF new_processed_ids = <<>>
       THEN FeedReturn
       ELSE /\ processed_ids' = new_processed_ids
            /\ pc' = "write_json"
            /\ UNCHANGED <<fi, items, existing_ids, new_items, k, new_processed_ids,
                           processed_count, error_count, itemVars, outcomes,
                           passIdents, curSteps, opErrSeen, timedOut, excSource,
                           checks, okAt, submitAnswer, skipCause, tried, textLen, srcFailed>>
    /\ UNCHANGED <<envVars, run, savedIdents, fullyDone, attempted, feedFailed,
                   initFailed, itemErrors, normalized, lastCall>>
    /\ UNCHANGED <<stepLog, text_path, gcs_uri, inFlight, pauseDue, submits, interrupted, other, mineSaved>>

\* lines 188-190: with nothing marked the pass returns; otherwise the loaded
\* list is extended by the new ids and handed to write_json
SaveProcessed ==
    /\ pc = "save"
    /\ IF new_processed_ids = <<>>
       THEN FeedReturn
       ELSE /\ processed_ids' = processed_ids \o new_processed_ids
            /\ pc' = "write_json"
            /\ UNCHANGED <<fi, items, existing_ids, new_items, k, new_processed_ids,
                           processed_count, error_count, itemVars, outcomes,
                           passIdents, curSteps, opErrSeen, timedOut, excSource,
                           checks, okAt, submitAnswer, skipCause, tried, textLen, srcFailed>>
    /\ UNCHANGED <<envVars, run, savedIdents, fullyDone, attempted, feedFailed,
                   initFailed, itemErrors, normalized, lastCall>>
    /\ UNCHANGED <<stepLog, text_path, gcs_uri, inFlight, pauseDue, submits, interrupted, other, mineSaved>>

\* lines 191-194, gcs_utils.py 62-83: write_json under its retry wrapper; when
\* it succeeds the file holds the extended list and the pass returns
WriteJson ==
    /\ pc = "write_json"
    /\ \E script \in Scripts(StoreMaxAttempts) :
          LET call == CallWithRetry(script, StoreMaxAttempts, "any")
          IN  /\ lastCall' = Call("write_json", call.attempts)
              /\ mineSaved' = IF /\ call.ok /\ CurFeed = RSS_FEEDS[1]
                                 /\ other.pc # "idle" /\ other.run = run
                              THEN new_processed_ids
                              ELSE mineSaved
              /\ IF call.ok
                 THEN /\ stored' = [stored EXCEPT ![CurFolder] = JsonFile(processed_ids)]
                      /\ savedIdents' = [savedIdents EXCEPT
                                           ![CurFolder] = @ \cup passIdents]
                      /\ FeedReturn
                      /\ UNCHANGED feedFailed
                 ELSE /\ FeedRaise("write_json")
                      /\ UNCHANGED <<stored, savedIdents, fi, feedVars, itemVars,
                                     outcomes, passIdents, curSteps, opErrSeen,
                                     timedOut, checks, okAt, submitAnswer,
                                     skipCause, tried, textLen, srcFailed>>
    /\ UNCHANGED <<feedEntries, now, hangsLeft, published, run, fullyDone,
                   attempted, initFailed, itemErrors, normalized>>
    /\ UNCHANGED <<stepLog, text_path, gcs_uri, inFlight, pauseDue, submits, interrupted, other>>

(***************************************************************************)
(* The environment between invocations.                                    *)
(***************************************************************************)
\* the job is invoked again after the previous invocation has exited
StartRun ==
    /\ pc \in {"exit0", "exit1", "stopped"}
    /\ run < MaxRuns
    /\ run' = run + 1
    /\ pc' = "main_init" /\ fi' = 0
    /\ ResetLocals
    /\ excSource' = "none"
    /\ attempted' = {} /\ feedFailed' = {} /\ initFailed' = FALSE
    /\ itemErrors' = 0
    /\ UNCHANGED <<envVars, savedIdents, fullyDone, normalized, lastCall>>
    /\ UNCHANGED <<stepLog, text_path, gcs_uri, inFlight, pauseDue, submits, interrupted, other, mineSaved>>

\* a feed publishes one more entry between two invocations
Publish ==
    /\ pc \in {"exit0", "exit1", "stopped"}
    /\ run < MaxRuns
    /\ published < MaxPublish
    /\ \E f \in Feeds, e \in PublishPool :
          feedEntries' = [feedEntries EXCEPT ![f] = Append(@, e)]
    /\ published' = published + 1
    /\ UNCHANGED <<stored, now, hangsLeft, run, pc, fi, feedVars, itemVars,
                   histVars, obsVars>>
    /\ UNCHANGED <<stepLog, text_path, gcs_uri, inFlight, pauseDue, submits, interrupted, other, mineSaved>>

\* the ids of processed_ids.json as read at line 91 (line 190 extends the list
\* by the new ids before write_json is called)
LoadedIds ==
    IF pc = "write_json"
    THEN SubSeq(processed_ids, 1, Len(processed_ids) - Len(new_processed_ids))
    ELSE processed_ids

\* the process is stopped from outside (killed, or its time limit is reached)
\* while a pass is between its load and the completion of its save: its
\* locals are gone, and no handler runs
Stop ==
    /\ InPass
    /\ pc' = "stopped"
    /\ interrupted' = [folder |-> CurFolder, run |-> run, loaded |-> LoadedIds,
                       done |-> passIdents \cup
                                  (IF pc = "mark" THEN {Identity(CurItem)} ELSE {})]
    /\ ResetLocals
    /\ excSource' = "none"
    /\ normalized' = {} /\ lastCall' = NoCall /\ stepLog' = <<>>
    /\ text_path' = NoPath /\ gcs_uri' = NoPath /\ inFlight' = 0
    /\ pauseDue' = FALSE /\ submits' = 0
    /\ UNCHANGED <<envVars, run, fi, savedIdents, fullyDone, attempted,
                   feedFailed, initFailed, itemErrors>>
    /\ UNCHANGED <<other, mineSaved>>

Next ==
    \/ InitComponents \/ FeedLoop \/ ProcessFeedExcept \/ MainExcept
    \/ FetchRss \/ ParseRssStep \/ LoadProcessed
    \/ ItemLoop \/ UploadXml \/ FetchHtml \/ UploadHtml \/ CleanHtml \/ UploadText
    \/ RagSubmit \/ RagPoll
    \/ Pause \/ EmbedText \/ UpsertVector \/ MarkProcessed \/ ItemExcept
    \/ SaveProcessed \/ WriteJson
    \/ StartRun \/ Publish

\* repeated invocations of the job; every import operation terminates
Spec == Init /\ [][Next]_vars

\* repeated invocations of the job against an import service that may leave
\* operations running for ever
SpecPoll == InitPoll /\ [][Next]_vars

\* the steps of the job's single thread of control
ProcessStep ==
    \/ InitComponents \/ FeedLoop \/ ProcessFeedExcept \/ MainExcept
    \/ FetchRss \/ ParseRssStep \/ LoadProcessed
    \/ ItemLoop \/ UploadXml \/ FetchHtml \/ UploadHtml \/ CleanHtml \/ UploadText
    \/ RagSubmit \/ RagPoll
    \/ Pause \/ EmbedText \/ UpsertVector \/ MarkProcessed \/ ItemExcept
    \/ SaveProcessed \/ WriteJson

\* SpecPoll with every remote call returning or raising and every sleep
\* ending: the thread of control always takes its next step
SpecLive == InitPoll /\ [][Next]_vars /\ WF_vars(ProcessStep)

\* two articles in the first feed; every import operation terminates
InitPair ==
    /\ feedEntries = [f \in Feeds |-> IF f = RSS_FEEDS[1] THEN <<CleanA, CleanB>> ELSE <<>>]
    /\ hangsLeft = 0
    /\ InitJob

NextStop == Next \/ Stop

\* repeated invocations of the job, each of which may be stopped in mid-pass
SpecStop == InitPair /\ [][NextStop]_vars

\* main.py 85-96 in a second, concurrent run of the job: it loads the first
\* feed's processed_ids.json while this run's pass over that feed is between
\* its own load and the completion of its save
OtherLoad ==
    /\ other.pc = "idle"
    /\ InPass /\ CurFeed = RSS_FEEDS[1]
    /\ other' = [pc |-> "loaded", run |-> run, ids |-> stored[CurFolder].ids, new |-> <<>>]
    /\ UNCHANGED <<envVars, run, pc, fi, feedVars, itemVars, histVars, obsVars,
                   stepLog, text_path, gcs_uri, inFlight, pauseDue, submits,
                   interrupted, mineSaved>>

\* the subsequences of s
RECURSIVE SubSeqs(_)
SubSeqs(s) ==
    IF s = <<>> THEN {<<>>}
    ELSE LET rest == SubSeqs(Tail(s))
         IN  rest \cup {<<Head(s)>> \o r : r \in rest}

\* main.py 108-192 in the second run: some items of its delta complete (the
\* others are skipped or raise), their ids are appended to the list it loaded,
\* and write_json replaces the file with that list
OtherSave ==
    /\ other.pc = "loaded"
    /\ LET d == Folder(RSS_FEEDS[1])
           delta == GetNewItems(ParseRss(feedEntries[RSS_FEEDS[1]]), Range(other.ids))
       IN  \E done \in SubSeqs(delta) \ {<<>>} :
              LET new == [i \in 1..Len(done) |-> MakeItemId(Identity(done[i]), now)]
              IN  /\ stored' = [stored EXCEPT ![d] = JsonFile(other.ids \o new)]
                  /\ other' = [other EXCEPT !.pc = "saved", !.new = new]
    /\ UNCHANGED <<feedEntries, now, hangsLeft, published, run, pc, fi, feedVars,
                   itemVars, histVars, obsVars,
                   stepLog, text_path, gcs_uri, inFlight, pauseDue, submits,
                   interrupted, mineSaved>>

NextRace == Next \/ OtherLoad \/ OtherSave

\* repeated invocations of the job, one of them with a second run of the job
\* working on the first feed at the same time
SpecRace == InitPair /\ [][NextRace]_vars

(***************************************************************************)
(* Properties.                                                             *)
(***************************************************************************)
Count(seq, v) == Cardinality({i \in 1..Len(seq) : seq[i] = v})
Exited == pc \in {"exit0", "exit1"}
FirstFeed == RSS_FEEDS[1]

\* C1: an item whose id a completed save of an earlier run has stored is
\* excluded from the delta of every later run (it is not processed again).
\* Stated for the identities whose id is derived from the identity itself; the
\* ids of the timestamp fallback differ from run to run by construction.
C1_SavedItemsExcludedFromDelta ==
    InPass => \A j \in 1..Len(new_items) :
                 ~NeedsClock(Identity(new_items[j]))
                    => Identity(new_items[j]) \notin savedIdents[CurFolder]

\* C2: the first run completed and saved both items of a 2-item feed and the
\* feed then published one new item: the second run's delta is the new item
\* alone, and the list it hands to the store is id1, id2, id3.
C2_SecondRunProcessesOnlyNewItem ==
    LET its == ParseRss(feedEntries[FirstFeed])
        idOf(i) == MakeItemId(Identity(its[i]), now)
    IN  ( /\ run = 2 /\ fi = 1 /\ InPass
          /\ Len(its) = 3
          /\ \A i \in 1..3 : ~NeedsClock(Identity(its[i]))
          /\ Cardinality({Identity(its[i]) : i \in 1..3}) = 3
          /\ {Identity(its[1]), Identity(its[2])} = savedIdents[Folder(FirstFeed)] )
        => /\ new_items = <<its[3]>>
           /\ pc = "write_json" => processed_ids = <<idOf(1), idOf(2), idOf(3)>>

C4_ItemFailuresIsolated ==
    /\ pc = "save" =>
          /\ Len(outcomes) = Len(new_items)
          /\ error_count = Count(outcomes, "raised")
          /\ Len(new_processed_ids) = Count(outcomes, "done")
          /\ processed_count = Count(outcomes, "done")
    /\ pc \in {"feed_except", "main_except"} =>
          excSource \in {"init", "fetch_rss", "parse_rss", "read_json", "write_json"}

C4_Witness ==
    /\ pc = "save"
    /\ outcomes = <<"raised", "done">>

\* C5: every id in the in-memory or stored ProcessedSet is the id of an item
\* whose import reached terminal success and whose embedding and upsert
\* succeeded; an abandoned or failed item is not appended.
C5_OnlyCompletedItemsMarked ==
    /\ \A d \in Folders : \A i \in 1..Len(stored[d].ids) :
          <<d, stored[d].ids[i]>> \in fullyDone
    /\ InPass =>
          /\ \A i \in 1..Len(processed_ids) : <<CurFolder, processed_ids[i]>> \in fullyDone
          /\ \A i \in 1..Len(new_processed_ids) :
                <<CurFolder, new_processed_ids[i]>> \in fullyDone
          /\ Len(new_processed_ids) <= Count(outcomes, "done")

C5_Witness ==
    /\ pc = "write_json"
    /\ "skipped" \in Range(outcomes)
    /\ "raised" \in Range(outcomes)
    /\ new_processed_ids # <<>>

\* C6: when a feed's pass has raised, every configured feed has still been
\* attempted by the time the job exits.
C6_LaterFeedsStillAttempted ==
    (Exited /\ feedFailed # {}) => attempted = Feeds

\* C7: a final save whose retries are exhausted is not raised as a feed-level
\* error and does not make the run exit as failed.
C7_SaveFailureNotRaised ==
    /\ ~(pc = "feed_except" /\ excSource = "write_json")
    /\ ~(pc = "exit1" /\ excSource = "write_json")

\* C8: the job exits with status 1 exactly when the initialisation raised or
\* some feed's pass raised; item-level errors alone leave the status at 0.
C8_ExitStatus ==
    Exited => ((pc = "exit1") <=> (initFailed \/ feedFailed # {}))

C8_Witness ==
    /\ pc = "exit0"
    /\ itemErrors = 1

\* C9: once a status check has reported the operation done with an error, no
\* import is submitted again for that item.
C9_NoResubmitAfterOperationError ==
    ~(opErrSeen /\ pc = "rag_poll")

\* C10: a poll loop that runs out of attempts fails the item: no status check
\* is issued for the item beyond the 120th, and the item fails with the
\* timeout of its first and only submission.
C10_TimeoutAfterExactly120Checks ==
    /\ ~(timedOut /\ pc = "rag_poll" /\ poll_attempt >= 1)
    /\ (pc = "item_except" /\ excSource = "poll_timeout") => attempt = 1

\* C11: when a status check reports terminal success, ingest_to_rag returns:
\* the check that reported it is the last one issued (the k-th of k, with
\* k <= max_poll_attempts), and the import is not submitted again.
C11_ReturnsAtFirstSuccess ==
    okAt # 0 => /\ pc = "pause"
                /\ okAt \in 1..max_poll_attempts
                /\ checks = okAt
                /\ poll_attempt = okAt
                /\ submitAnswer = "accepted"

\* success reported by the very last check the loop allows
C11_Witness == pc = "pause" /\ okAt = max_poll_attempts

\* C12: an item whose extracted text is shorter than MIN_TEXT_LENGTH is
\* abandoned: no import, embedding or upsert is requested for it and its id
\* is not appended to the new processed ids.
C12_ShortTextAbandoned ==
    (textLen # -1 /\ textLen < MIN_TEXT_LENGTH) =>
        /\ tried \cap {"import", "embed", "upsert"} = {}
        /\ curSteps = {}
        /\ outcomes # <<>> /\ outcomes[Len(outcomes)] = "skipped"
        /\ Len(new_processed_ids) = Count(outcomes, "done")
        /\ pc \in {"item_loop", "save", "write_json", "feed_except", "main_except"}

\* a text one character short of the minimum was abandoned and the pass went
\* on to its save
C12_Witness ==
    /\ textLen = MIN_TEXT_LENGTH - 1 /\ pc = "write_json"
    /\ outcomes[Len(outcomes)] = "skipped"

\* C13: every retry-wrapped call is attempted at most 3 times (5 for the
\* import call), and every wait between two attempts lies between the site's
\* floor and its ceiling (10 s, and 60 s for the import call).
C13_WaitsAndAttemptsBounded ==
    /\ attempt \in 1..5
    /\ lastCall.site # "none" =>
          LET import == lastCall.site = "ingest_to_rag"
          IN  /\ lastCall.site \in Sites
              /\ lastCall.attempts >= 1
              /\ lastCall.attempts <= (IF import THEN 5 ELSE 3)
              /\ Len(lastCall.waits) = lastCall.attempts - 1
              /\ \A i \in 1..Len(lastCall.waits) :
                    /\ lastCall.waits[i] >= WaitMin(lastCall.site)
                    /\ lastCall.waits[i] <= (IF import THEN 60 ELSE 10)

\* the import call made its last attempt, and the item failed
C13_Witness ==
    /\ pc = "item_except"
    /\ lastCall.site = "ingest_to_rag" /\ lastCall.attempts = RagMaxAttempts

\* C14: a submission rejected with 400 "other operations running" starts no
\* polling; it is retried while fewer than 5 attempts were made, and the
\* item fails after the 5th attempt.
C14_ConcurrentRejectionRetried ==
    submitAnswer = "concurrent" =>
        /\ checks = 0 /\ poll_attempt = 0
        /\ \/ pc = "rag_submit" /\ attempt \in 2..5
           \/ pc = "item_except" /\ attempt = 5 /\ excSource = "concurrent"

\* the fifth attempt was rejected as concurrent and the item failed
C14_Witness ==
    pc = "item_except" /\ submitAnswer = "concurrent" /\ excSource = "concurrent"

\* C15: when the feed cannot be retrieved or cannot be parsed, the pass is
\* aborted with a feed-level exception: no item is processed and nothing is
\* saved.
C15_SourceFailureAbortsPass ==
    srcFailed => /\ pc \in {"feed_except", "main_except"}
                 /\ excSource \in {"fetch_rss", "parse_rss"}
                 /\ CurFeed \in feedFailed

ItemSteps == {"upload_xml", "fetch_html", "upload_html", "clean_html", "upload_text",
              "rag_submit", "rag_poll", "pause", "embed_text", "upsert_vector",
              "mark", "item_except"}

\* C16: an item without a link is abandoned: nothing is fetched, imported,
\* embedded or upserted for it, it is not counted as an error and its id is
\* not appended.
C16_NoLinkItemAbandoned ==
    /\ \A j \in 1..Len(outcomes) :
          new_items[j].link = Empty => outcomes[j] = "skipped"
    /\ (pc \in ItemSteps /\ CurItem.link = Empty) => tried = {}

\* C16 (amended): for an item without a link nothing is fetched, imported,
\* embedded or upserted and its id is never appended; its raw XML is uploaded
\* first, and it is abandoned without being counted as an error when that
\* upload succeeds, and counted as an error only when that upload fails.
C16_NoLinkItemAbandonedAfterUpload ==
    /\ \A j \in 1..Len(outcomes) :
          new_items[j].link = Empty => outcomes[j] \in {"skipped", "raised"}
    /\ (pc \in ItemSteps /\ CurItem.link = Empty) =>
          /\ tried = {}
          /\ pc \in {"upload_xml", "item_except"}
          /\ pc = "item_except" => excSource = "upload_xml"
    /\ skipCause = "no_link" =>
          /\ tried = {}
          /\ new_items[Len(outcomes)].link = Empty
          /\ outcomes[Len(outcomes)] = "skipped"
          /\ error_count = Count(outcomes, "raised")
          /\ Len(new_processed_ids) = Count(outcomes, "done")
          /\ pc \in {"item_loop", "save", "write_json", "feed_except", "main_except"}

\* an item without a link was abandoned after another item was marked
C16_Witness ==
    skipCause = "no_link" /\ pc = "save" /\ outcomes = <<"done", "skipped">>

\* C17: processed_ids.json is written only by the save at the end of the
\* pass, after the last new item was handled, and the write ends the pass;
\* the list written is the stored list followed by the ids of the items
\* marked in this pass.
C17_SavedOnceAfterLastItem ==
    [][stored' # stored =>
          /\ pc = "write_json" /\ pc' = "feed_loop"
          /\ k = Len(new_items) + 1 /\ Len(outcomes) = Len(new_items)
          /\ Len(new_processed_ids) = Count(outcomes, "done")
          /\ processed_ids = stored[CurFolder].ids \o new_processed_ids
          /\ stored' = [stored EXCEPT ![CurFolder] = JsonFile(processed_ids)]]_vars

\* a pass with a failed item and a marked item has saved its ids
C17_Witness ==
    /\ pc = "feed_loop" /\ fi = 2 /\ itemErrors = 1
    /\ stored[Folder(FirstFeed)].exists /\ Len(stored[Folder(FirstFeed)].ids) = 1

IsPrefix(s, t) == Len(s) <= Len(t) /\ SubSeq(t, 1, Len(s)) = s

\* C18: across the runs the stored list only grows: every step leaves every
\* stored file in place, with the ids it held as a prefix of the ids it holds.
C18_StoredIdsOnlyGrow ==
    [][\A d \in Folders :
          /\ stored[d].exists => stored'[d].exists
          /\ IsPrefix(stored[d].ids, stored'[d].ids)]_vars

\* the second run has appended to the list the first run stored
C18_Witness ==
    run = 2 /\ stored[Folder(FirstFeed)].exists /\ Len(stored[Folder(FirstFeed)].ids) >= 3

\* C19: within a run the same identity always gets the same ItemId, whenever
\* it is normalized, the identities of the timestamp fallback included.
C19_SameIdentitySameItemId ==
    \A p, q \in normalized : p[2] = q[2] => p[3] = q[3]

\* C20: two items of one pass with distinct identities never get the same
\* ItemId.
C20_DistinctIdentitiesDistinctIds ==
    \A p, q \in normalized : (p[1] = q[1] /\ p[2] # q[2]) => p[3] # q[3]

\* main.py 120-181: the steps of one item in the order the loop body lists them
StepOrder ==
    <<"upload_xml", "fetch_html", "upload_html", "clean_html", "upload_text",
      "import", "embed", "upsert", "mark">>

\* C21: the steps of an item run in the fixed order (raw XML stored, article
\* fetched, raw HTML stored, text extracted, text stored, import, embedding,
\* upsert, id appended); no step runs after an earlier step of the item failed;
\* embedding and upsert start only after the import reported terminal success.
C21_StepsInFixedOrder ==
    /\ Len(stepLog) <= Len(StepOrder)
    /\ \A i \in 1..Len(stepLog) : stepLog[i][1] = StepOrder[i]
    /\ \A i \in 1..(Len(stepLog) - 1) : stepLog[i][2] = "ok"
    /\ \A i \in 1..Len(stepLog) :
          stepLog[i][1] \in {"embed", "upsert"} =>
             \E j \in 1..(i - 1) : stepLog[j] = <<"import", "ok">>

\* an item has run all nine steps; another one stopped at a failed import
C21_Witness ==
    /\ Len(stepLog) = Len(StepOrder)
    /\ stepLog[Len(stepLog)] = <<"mark", "ok">>
    /\ Count(outcomes, "raised") > 0

Idents(its) == {Identity(its[i]) : i \in 1..Len(its)}

\* C22: when the process stops before the end-of-pass save, processed_ids.json
\* holds exactly the ids the pass loaded, and the delta the next run computes
\* for that feed contains every item the interrupted pass had completed (and
\* the feed still lists).
C22_NoPartialCommit ==
    /\ [](pc = "stopped" => stored[interrupted.folder].ids = interrupted.loaded)
    /\ [][(/\ pc = "read_json" /\ pc' \in {"item_loop", "feed_loop"}
            /\ interrupted.folder = CurFolder /\ interrupted.run = run - 1)
           => \A id \in interrupted.done \cap Idents(items) :
                 id \in Idents(new_items')]_vars

\* the run after a pass that was stopped with a completed item is handling
\* that feed's delta, which contains the item again
C22_Witness ==
    /\ InPass /\ CurFolder = interrupted.folder /\ run = interrupted.run + 1
    /\ interrupted.done # {}
    /\ interrupted.done \subseteq Idents(new_items)

\* C23: the source reference submitted to the corpus import for an item is the
\* path at which the item's extracted text was stored in this pass.
C23_ImportSourceIsStoredText == gcs_uri # NoPath => gcs_uri = text_path

\* the number of items of the delta the item loop has taken up so far
TakenUp == IF pc = "item_loop" THEN k - 1 ELSE Min(k, Len(new_items))

\* C24: within one pass no identity is taken through the item steps more than
\* once, and no ItemId is appended to the new processed ids more than once.
C24_NoIdentityTwiceInPass ==
    InPass =>
       /\ \A i, j \in 1..TakenUp :
             i # j => Identity(new_items[i]) # Identity(new_items[j])
       /\ \A i, j \in 1..Len(new_processed_ids) :
             i # j => new_processed_ids[i] # new_processed_ids[j]

\* C25: this process never has two import operations in flight: an import is
\* submitted only after the operation submitted before it has been seen in a
\* terminal state.
C25_OneImportInFlight == inFlight <= 1

\* C26: after a successful import the pause elapses before an import is
\* submitted for a following item: no import is submitted, and none is being
\* polled, while the pause after an earlier success is still due.
C26_PauseBeforeNextImport == pc \in {"rag_submit", "rag_poll"} => ~pauseDue

\* the second item's import has been submitted after the first item's import
\* succeeded
C26_Witness ==
    /\ pc = "rag_poll" /\ k = 2
    /\ Len(outcomes) = 1 /\ outcomes[1] = "done"

\* C27: when every remote call returns or raises, every run ends with an exit
\* signal; an item costs at most 5 import submissions, each of them at most
\* 120 status checks (5 x 120 in all).
C27_EveryRunExits ==
    /\ [](submits <= RagMaxAttempts /\ checks <= max_poll_attempts)
    /\ [](Running => <>Exited)

\* an item has used up its five submissions, the last of them with 120 status
\* checks
C27_Witness ==
    /\ pc = "item_except"
    /\ submits = RagMaxAttempts /\ checks = max_poll_attempts

\* C28: when the passes of two runs over the same feed overlap (both load
\* before either saves), every id either of them saved is in the stored list
\* once both have saved.
C28_NoSavedIdLost ==
    (other.pc = "saved" /\ mineSaved # <<>>) =>
       Range(mineSaved) \cup Range(other.new) \subseteq
          Range(stored[Folder(FirstFeed)].ids)

====
